---- MODULE Spec2Model ----
(***************************************************************************)
(* NanachiGo: research-paper mind-map backend.                             *)
(*                                                                         *)
(* The module models, from the Go sources,                                 *)
(*   - UpdateNodeByPath, the path-addressed update of the loosely typed    *)
(*     mind-map tree (internal/utils/utils.go);                            *)
(*   - CallClaude, the Bedrock invocation with its retry loop, and         *)
(*     CallGemini (internal/utils/utils.go);                               *)
(*   - the two persistence backends, DynamoDB (db package, aws) and        *)
(*     Firestore (db package, gcp), and the delete handler;                *)
(*   - the three node action handlers (redo-description, remake-subtree,   *)
(*     go-deeper);                                                         *)
(*   - UploadPaper, the ingest of an uploaded PDF.                         *)
(*                                                                         *)
(* Each part has its own specification (SpecTree, SpecInvoke, SpecGemini,  *)
(* SpecStore, SpecUpdate, SpecAction, SpecRace, SpecDelete, SpecIngest)    *)
(* over the shared variables; the variables a specification does not use   *)
(* keep their initial value.                                               *)
(***************************************************************************)
EXTENDS Integers, Sequences, FiniteSets, TLC

VARIABLES
    \* ---- UpdateNodeByPath (SpecTree) ----
    root,        \* the tree handed to UpdateNodeByPath (mutated in place)
    path,        \* the path argument
    updates,     \* the patch argument
    applied,     \* the boolean UpdateNodeByPath returned
    rootBefore,  \* history: the tree as it was before the call
    pcU          \* "ready" before the call, "done" after it

treeVars == <<root, path, updates, applied, rootBefore, pcU>>

VARIABLES
    \* ---- CallClaude (SpecInvoke) ----
    i,           \* loop variable of the retry loop (0-based attempt index)
    delay,       \* backoff delay in seconds
    pcC,         \* "call" | "inflight" | "sleep" | "done"
    sleepLeft,   \* seconds left of the running time.Sleep
    ctxDone,     \* the caller's context has been cancelled
    startedDone, \* the in-flight InvokeModel was started on a cancelled context
    attempts,    \* history: number of InvokeModel calls started
    outcomes,    \* history: what each InvokeModel call returned
    elapsed,     \* history: seconds spent in time.Sleep
    ret          \* the (result, error) pair CallClaude returned

invokeVars == <<i, delay, pcC, sleepLeft, ctxDone, startedDone, attempts,
                outcomes, elapsed, ret>>

VARIABLES
    \* ---- persistence (SpecStore, SpecAction) ----
    table,       \* the DynamoDB table: id -> stored attributes
    collection,  \* the Firestore collection: id -> stored document data
    envDefault,  \* the DEFAULT_PLATFORM environment variable
    last         \* history: the last persistence call, its inputs and results

storeVars == <<table, collection, envDefault, last>>

VARIABLES
    \* ---- request handlers (SpecAction, SpecRace, SpecDelete, SpecIngest) ----
    req          \* per handler goroutine: its position, inputs, locals, response

vars == <<treeVars, invokeVars, storeVars, req>>

(***************************************************************************)
(* Loosely typed values (Go interface{} holding decoded JSON).             *)
(***************************************************************************)
Nil == [k |-> "nil"]
Str(s) == [k |-> "str", s |-> s]
Lst(q) == [k |-> "list", l |-> q]
Map(f) == [k |-> "map", m |-> f]

IsMap(v) == v.k = "map"
IsList(v) == v.k = "list"

\* Path segments as json.Decoder leaves them in []interface{}: a string, a
\* float64 (kept in halves: h stands for the number h/2), or anything else.
SegString(name) == [t |-> "string", s |-> name]
SegFloat(h) == [t |-> "float64", h |-> h]
SegOther == [t |-> "bool"]

\* int(idx) on a float64: truncation toward zero.
IntOf(h) == IF h >= 0 THEN h \div 2 ELSE -((-h) \div 2)

\* MergeInto as a plausible slip would have it: the patch takes the node's place.
MergeIntoReplacing(node, upd) == upd

\* for k, v := range updates { node[k] = v }
MergeInto(node, upd) ==
    [x \in (DOMAIN node) \cup (DOMAIN upd) |->
        IF x \in DOMAIN upd THEN upd[x] ELSE node[x]]

\* m[idx] = v on a Go map
SetKey(m, key, v) ==
    [x \in (DOMAIN m) \cup {key} |-> IF x = key THEN v ELSE m[x]]

\* The final string segment as a plausible slip would have it: a missing key
\* is created instead of being reported.
FinalFieldCreating(current, idx, upd) ==
    IF ~IsMap(current) THEN [ok |-> FALSE, val |-> current]
    ELSE IF idx \in DOMAIN current.m /\ IsMap(current.m[idx])
         THEN [ok |-> TRUE,
               val |-> Map(SetKey(current.m, idx, Map(MergeInto(current.m[idx].m, upd))))]
         ELSE [ok |-> TRUE, val |-> Map(SetKey(current.m, idx, Map(upd)))]

\* UpdateNodeByPath, case string with isLast (utils.go 820-838).
FinalField(current, idx, upd) ==
    IF ~IsMap(current) THEN [ok |-> FALSE, val |-> current]
    ELSE IF idx \notin DOMAIN current.m THEN [ok |-> FALSE, val |-> current]
    ELSE IF IsMap(current.m[idx])
         THEN [ok |-> TRUE,
               val |-> Map(SetKey(current.m, idx, Map(MergeInto(current.m[idx].m, upd))))]
         ELSE [ok |-> TRUE, val |-> Map(SetKey(current.m, idx, Map(upd)))]

\* UpdateNodeByPath, case float64 with isLast (utils.go 846-864); arr is
\* 0-based in Go, 1-based here.
FinalIndex(current, h, upd) ==
    IF ~IsList(current) THEN [ok |-> FALSE, val |-> current]
    ELSE LET ii == IntOf(h) IN
         IF ii < 0 \/ ii >= Len(current.l) THEN [ok |-> FALSE, val |-> current]
         ELSE IF ~IsMap(current.l[ii + 1]) THEN [ok |-> FALSE, val |-> current]
         ELSE [ok |-> TRUE,
               val |-> Lst([current.l EXCEPT
                              ![ii + 1] = Map(MergeInto(current.l[ii + 1].m, upd))])]

\* The loop of UpdateNodeByPath from the value `current` on, over the rest
\* of the path.  Go mutates the addressed container in place; here the walk
\* returns the value of `current` after the call.
RECURSIVE Walk(_, _, _)
Walk(current, p, upd) ==
    IF p = << >> THEN [ok |-> FALSE, val |-> current]
    ELSE LET key == Head(p)
             isLast == Len(p) = 1
         IN
         CASE key.t = "string" ->
                IF isLast THEN FinalField(current, key.s, upd)
                ELSE IF ~IsMap(current) THEN [ok |-> FALSE, val |-> current]
                ELSE LET present == key.s \in DOMAIN current.m
                         next == IF present THEN current.m[key.s] ELSE Nil
                         r == Walk(next, Tail(p), upd)
                     IN IF r.ok /\ present
                        THEN [ok |-> TRUE, val |-> Map(SetKey(current.m, key.s, r.val))]
                        ELSE [ok |-> r.ok, val |-> current]
           [] key.t = "float64" ->
                IF isLast THEN FinalIndex(current, key.h, upd)
                ELSE IF ~IsList(current) THEN [ok |-> FALSE, val |-> current]
                ELSE LET ii == IntOf(key.h) IN
                     IF ii < 0 \/ ii >= Len(current.l)
                     THEN [ok |-> FALSE, val |-> current]
                     ELSE LET r == Walk(current.l[ii + 1], Tail(p), upd) IN
                          IF r.ok
                          THEN [ok |-> TRUE,
                                val |-> Lst([current.l EXCEPT ![ii + 1] = r.val])]
                          ELSE [ok |-> FALSE, val |-> current]
           [] OTHER -> [ok |-> FALSE, val |-> current]

\* UpdateNodeByPath as a plausible slip would have it: the result of the walk
\* is kept and its verdict dropped.
UpdateNodeByPathUnchecked(r, p, upd) == [ok |-> TRUE, val |-> Walk(r, p, upd).val]

UpdateNodeByPath(r, p, upd) == Walk(r, p, upd)

\* CallClaude not in use.
NoRet == [err |-> "unset", result |-> << >>, raw |-> << >>]

InvokeIdle ==
    /\ i = 0 /\ delay = 0 /\ pcC = "off" /\ sleepLeft = 0
    /\ ctxDone = FALSE /\ startedDone = FALSE /\ attempts = 0
    /\ outcomes = << >> /\ elapsed = 0 /\ ret = NoRet

\* No persistence call made yet.
NoCall ==
    [op |-> "none", platform |-> "", id |-> "", up |-> TRUE, existed |-> FALSE,
     before |-> << >>, upd |-> << >>, err |-> "nil", retID |-> "", found |-> FALSE,
     deleted |-> FALSE, status |-> 0, body |-> ""]

StoreIdle ==
    /\ table = << >> /\ collection = << >> /\ envDefault = "" /\ last = NoCall

\* The handler goroutines; a goroutine that serves no request is idle.
Slots == {1, 2}

NoReq ==
    [pc |-> "idle", action |-> "", param |-> "", platform |-> "", id |-> "",
     decoded |-> FALSE, nodePath |-> << >>, fetch |-> "none", item |-> << >>,
     call |-> "none", result |-> << >>, resolved |-> FALSE, data |-> Nil,
     write |-> "none", status |-> 0, body |-> "", payload |-> Nil]

HandlersIdle == req = [r \in Slots |-> NoReq]

(***************************************************************************)
(* Inputs of UpdateNodeByPath.                                             *)
(***************************************************************************)
MaxPathLen == 3
MaxKids == 2

SeqsUpTo(S, n) == UNION {[1..m -> S] : m \in 0..n}

Leaf(name, tip) == Map([name |-> Str(name), tooltip |-> Str(tip)])
Node(name, tip, kids) ==
    Map([name |-> Str(name), tooltip |-> Str(tip), children |-> Lst(kids)])

\* Elements of a children list: a node with children of its own, a bare
\* string, a null.
Elems == {Node("a", "t0", <<Leaf("b", "t1"), Str("s")>>), Str("s"), Nil}

Roots ==
    {Node("r", "t0", kids) : kids \in SeqsUpTo(Elems, MaxKids)}
    \cup {Map([name |-> Str("r"), meta |-> Map([tooltip |-> Str("t0"), pages |-> Str("1")]),
               children |-> Lst(<<Leaf("b", "t1")>>)]),
          Map([name |-> Str("r"), children |-> Nil]),
          Leaf("r", "t0")}

Segments ==
    {SegString("children"), SegString("tooltip"), SegString("meta"),
     SegFloat(-2), SegFloat(-1), SegFloat(3), SegOther}

Paths == SeqsUpTo(Segments, MaxPathLen)

Patches == {[tooltip |-> Str("new")],
            [children |-> Lst(<<Leaf("c", "t2")>>)]}

TreeIdle ==
    /\ root = Nil /\ path = << >> /\ updates = << >>
    /\ applied = FALSE /\ rootBefore = Nil /\ pcU = "off"

InitTree ==
    /\ InvokeIdle
    /\ StoreIdle
    /\ HandlersIdle
    /\ root \in Roots
    /\ path \in Paths
    /\ updates \in Patches
    /\ applied = FALSE
    /\ rootBefore = root
    /\ pcU = "ready"

\* One call UpdateNodeByPath(root, path, updates).
Apply ==
    /\ pcU = "ready"
    /\ LET r == UpdateNodeByPath(root, path, updates) IN
        /\ root' = r.val
        /\ applied' = r.ok
    /\ pcU' = "done"
    /\ UNCHANGED <<path, updates, rootBefore>>
    /\ UNCHANGED <<invokeVars, storeVars, req>>

NextTree == Apply

SpecTree == InitTree /\ [][NextTree]_vars

(***************************************************************************)
(* What a path addresses, stated independently of UpdateNodeByPath: the    *)
(* value reached by descending the path, or None.                          *)
(***************************************************************************)
None == [k |-> "none"]

RECURSIVE ValueAt(_, _)
ValueAt(v, p) ==
    IF p = << >> THEN v
    ELSE LET key == Head(p) IN
         IF key.t = "string" /\ IsMap(v) /\ key.s \in DOMAIN v.m
            THEN ValueAt(v.m[key.s], Tail(p))
         ELSE IF key.t = "float64" /\ IsList(v)
                 /\ IntOf(key.h) >= 0 /\ IntOf(key.h) < Len(v.l)
            THEN ValueAt(v.l[IntOf(key.h) + 1], Tail(p))
         ELSE None

\* The tree v with the value at path p (which must resolve) set to w.
RECURSIVE Put(_, _, _)
Put(v, p, w) ==
    IF p = << >> THEN w
    ELSE LET key == Head(p) IN
         IF key.t = "string"
            THEN Map([v.m EXCEPT ![key.s] = Put(v.m[key.s], Tail(p), w)])
            ELSE Lst([v.l EXCEPT ![IntOf(key.h) + 1] =
                                    Put(v.l[IntOf(key.h) + 1], Tail(p), w)])

Resolves(v, p) == p # << >> /\ ValueAt(v, p) # None

\* C4: a path that is empty or does not resolve (index out of range, field
\* missing at any segment, segment kind not matching the container, segment
\* neither string nor number) is answered not-applied, the tree unchanged.
C4_UnresolvedPathNotApplied ==
    (pcU = "done" /\ ~Resolves(rootBefore, path))
        => (applied = FALSE /\ root = rootBefore)

C4_Witness ==
    /\ pcU = "done"
    /\ Len(path) = 3
    /\ ValueAt(rootBefore, SubSeq(path, 1, 2)) # None
    /\ IsMap(ValueAt(rootBefore, SubSeq(path, 1, 2)))
    /\ path[3] = SegString("meta")
    /\ applied = FALSE /\ root = rootBefore

\* C5: a path resolving to a keyed container gets the shallow merge: the
\* patch's keys with the patch's values, the node's other keys as before,
\* nothing else in the tree touched.
C5_MergeIntoKeyedNode ==
    (pcU = "done" /\ Resolves(rootBefore, path) /\ IsMap(ValueAt(rootBefore, path)))
        => LET old == ValueAt(rootBefore, path).m
               new == ValueAt(root, path)
           IN /\ applied = TRUE
              /\ IsMap(new)
              /\ DOMAIN new.m = (DOMAIN old) \cup (DOMAIN updates)
              /\ \A x \in DOMAIN updates : new.m[x] = updates[x]
              /\ \A x \in (DOMAIN old) \ (DOMAIN updates) : new.m[x] = old[x]
              /\ root = Put(rootBefore, path, new)

C5_Witness ==
    /\ pcU = "done" /\ applied = TRUE
    /\ Len(path) = 2 /\ path[2].t = "float64"
    /\ IsMap(ValueAt(rootBefore, path))
    /\ "tooltip" \in DOMAIN updates
    /\ ValueAt(root, path).m["tooltip"] = Str("new")
    /\ ValueAt(rootBefore, path).m["tooltip"] = Str("t0")
    /\ ValueAt(root, path).m["children"] = ValueAt(rootBefore, path).m["children"]

\* C6: a final segment addressing an existing value that is not a keyed
\* container, by field name or by in-range index, has the value replaced by
\* the patch and success returned.
C6_ReplaceNonContainer ==
    (pcU = "done" /\ Resolves(rootBefore, path) /\ ~IsMap(ValueAt(rootBefore, path)))
        => (applied = TRUE /\ root = Put(rootBefore, path, Map(updates)))

(***************************************************************************)
(* CallClaude: one Bedrock invocation with its retry loop.                 *)
(***************************************************************************)
maxRetries == 3

\* An error string is kept as its words; strings.Contains(errStr, w) for a
\* single word w.
Contains(errStr, w) == \E n \in 1..Len(errStr) : errStr[n] = w

ErrThrottling == <<"operation", "error", "ThrottlingException">>
ErrService == <<"operation", "error", "ServiceException">>
ErrValidation == <<"operation", "error", "ValidationException">>
ErrCanceled == <<"operation", "error", "context", "canceled">>

\* The test that picks the errors worth a backoff (utils.go 656).
IsTransient(errStr) ==
    Contains(errStr, "ThrottlingException") \/ Contains(errStr, "ServiceException")

\* The raw model text, as tokens: prose "w", the brackets, a member "a".
MaxTextLen == 5
Tokens == {"w", "{", "}", "a"}
Texts == SeqsUpTo(Tokens, MaxTextLen)

Count(t, tok, n) == Cardinality({m \in 1..n : t[m] = tok})
Depth(t, n) == Count(t, "{", n) - Count(t, "}", n)

\* json.Unmarshal([]byte(text), &result) into a map: the text has to be one
\* object and nothing else.  The value is the object read.
IsObject(t) ==
    /\ Len(t) >= 2
    /\ t[1] = "{" /\ t[Len(t)] = "}"
    /\ \A n \in 1..Len(t) : t[n] # "w"
    /\ \A n \in 1..(Len(t) - 1) : Depth(t, n) >= 1
    /\ Depth(t, Len(t)) = 0

Unmarshal(t) ==
    IF IsObject(t) THEN [ok |-> TRUE, value |-> Map([members |-> SubSeq(t, 2, Len(t) - 1)])]
    ELSE [ok |-> FALSE, value |-> Nil]

\* The extraction as a non-greedy pattern would have it: from the first "{"
\* to the first "}" after it.
FindStringLazy(t) ==
    LET opens == {n \in 1..Len(t) : t[n] = "{"}
        firstOpen == CHOOSE n \in opens : \A m \in opens : n <= m
        closes == {n \in 1..Len(t) : t[n] = "}" /\ opens # {} /\ n > firstOpen}
        firstClose == CHOOSE n \in closes : \A m \in closes : n <= m
    IN IF opens = {} \/ closes = {} THEN << >> ELSE SubSeq(t, firstOpen, firstClose)

\* regexp \{[\s\S]*\} with FindString: from the first "{" to the last "}".
FindString(t) ==
    LET opens == {n \in 1..Len(t) : t[n] = "{"}
        firstOpen == CHOOSE n \in opens : \A m \in opens : n <= m
        closes == {n \in 1..Len(t) : t[n] = "}" /\ opens # {} /\ n > firstOpen}
        lastClose == CHOOSE n \in closes : \A m \in closes : n >= m
    IN IF opens = {} \/ closes = {} THEN << >> ELSE SubSeq(t, firstOpen, lastClose)

\* The two-stage parse of the response text (utils.go 683-700).
ParseText(t) ==
    IF Unmarshal(t).ok
    THEN [err |-> "nil", result |-> Unmarshal(t).value, raw |-> << >>]
    ELSE IF FindString(t) # << >> /\ Unmarshal(FindString(t)).ok
    THEN [err |-> "nil", result |-> Unmarshal(FindString(t)).value, raw |-> << >>]
    ELSE [err |-> "could not parse JSON", result |-> Nil, raw |-> t]

\* What one InvokeModel call can return.
OutError(errStr) == [kind |-> "error", errStr |-> errStr]
OutBadBody == [kind |-> "badbody"]
OutEmpty == [kind |-> "empty"]
OutText(t) == [kind |-> "text", text |-> t]

Outcomes ==
    {OutError(e) : e \in {ErrThrottling, ErrService, ErrValidation}}
    \cup {OutBadBody, OutEmpty}
    \cup {OutText(t) : t \in Texts}

\* The error branch as an off-by-one would have it: giving up one attempt
\* early.
AfterErrorGivingUpEarly(n, errStr) ==
    IF IsTransient(errStr) /\ n < maxRetries - 2 THEN "sleep"
    ELSE IF n >= maxRetries - 2 THEN "return"
    ELSE "continue"

\* The error branch of the loop body (utils.go 651-671): what follows a
\* failed attempt number n (0-based).
AfterError(n, errStr) ==
    IF IsTransient(errStr) /\ n < maxRetries - 1 THEN "sleep"
    ELSE IF n = maxRetries - 1 THEN "return"
    ELSE "continue"

InitInvoke ==
    /\ TreeIdle
    /\ StoreIdle
    /\ HandlersIdle
    /\ i = 0 /\ delay = 1 /\ pcC = "call" /\ sleepLeft = 0
    /\ ctxDone = FALSE /\ startedDone = FALSE /\ attempts = 0
    /\ outcomes = << >> /\ elapsed = 0 /\ ret = NoRet

\* client.InvokeModel(ctx, input) is called (utils.go 650).
StartAttempt ==
    /\ pcC = "call"
    /\ i < maxRetries
    /\ attempts' = attempts + 1
    /\ startedDone' = ctxDone
    /\ pcC' = "inflight"
    /\ UNCHANGED <<i, delay, sleepLeft, ctxDone, outcomes, elapsed, ret>>

\* InvokeModel returns and the loop body runs up to its next blocking call
\* or to the return.  A call on a cancelled context returns the context's
\* error; a call whose context is cancelled while in flight may still
\* return what the service answered.
AttemptReturns ==
    /\ pcC = "inflight"
    /\ \E o \in IF startedDone THEN {OutError(ErrCanceled)}
                ELSE IF ctxDone THEN Outcomes \cup {OutError(ErrCanceled)}
                ELSE Outcomes :
        /\ outcomes' = Append(outcomes, o)
        /\ CASE o.kind = "error" /\ AfterError(i, o.errStr) = "sleep" ->
                    /\ pcC' = "sleep" /\ sleepLeft' = delay
                    /\ UNCHANGED <<i, delay, ret>>
             [] o.kind = "error" /\ AfterError(i, o.errStr) = "return" ->
                    /\ pcC' = "done"
                    /\ ret' = [err |-> "failed after retries", result |-> Nil, raw |-> << >>]
                    /\ UNCHANGED <<i, delay, sleepLeft>>
             [] o.kind = "error" /\ AfterError(i, o.errStr) = "continue" ->
                    /\ pcC' = "call" /\ i' = i + 1
                    /\ UNCHANGED <<delay, sleepLeft, ret>>
             [] o.kind = "badbody" ->
                    /\ pcC' = "done"
                    /\ ret' = [err |-> "failed to unmarshal response", result |-> Nil, raw |-> << >>]
                    /\ UNCHANGED <<i, delay, sleepLeft>>
             [] o.kind = "empty" ->
                    /\ pcC' = "done"
                    /\ ret' = [err |-> "empty response content", result |-> Nil, raw |-> << >>]
                    /\ UNCHANGED <<i, delay, sleepLeft>>
             [] o.kind = "text" ->
                    /\ pcC' = "done"
                    /\ ret' = ParseText(o.text)
                    /\ UNCHANGED <<i, delay, sleepLeft>>
    /\ UNCHANGED <<ctxDone, startedDone, attempts, elapsed>>

\* The backoff as a plausible slip would have it: the delay is not doubled.
SleepTickNoDoubling ==
    /\ pcC = "sleep"
    /\ elapsed' = elapsed + 1
    /\ IF sleepLeft > 1
       THEN /\ sleepLeft' = sleepLeft - 1
            /\ UNCHANGED <<i, delay, pcC>>
       ELSE /\ sleepLeft' = 0
            /\ delay' = delay
            /\ i' = i + 1
            /\ pcC' = "call"
    /\ UNCHANGED <<ctxDone, startedDone, attempts, outcomes, ret>>

\* One second of time.Sleep(delay) passes (utils.go 659); when the sleep is
\* over the delay doubles and the loop continues (utils.go 660-661).
SleepTick ==
    /\ pcC = "sleep"
    /\ elapsed' = elapsed + 1
    /\ IF sleepLeft > 1
       THEN /\ sleepLeft' = sleepLeft - 1
            /\ UNCHANGED <<i, delay, pcC>>
       ELSE /\ sleepLeft' = 0
            /\ delay' = delay * 2
            /\ i' = i + 1
            /\ pcC' = "call"
    /\ UNCHANGED <<ctxDone, startedDone, attempts, outcomes, ret>>

\* The caller's context is cancelled while CallClaude is blocked in
\* InvokeModel or in time.Sleep.
Cancel ==
    /\ pcC \in {"inflight", "sleep"}
    /\ ~ctxDone
    /\ ctxDone' = TRUE
    /\ UNCHANGED <<i, delay, pcC, sleepLeft, startedDone, attempts, outcomes,
                   elapsed, ret>>

NextInvoke ==
    \/ (StartAttempt /\ UNCHANGED <<treeVars, storeVars, req>>)
    \/ (AttemptReturns /\ UNCHANGED <<treeVars, storeVars, req>>)
    \/ (SleepTick /\ UNCHANGED <<treeVars, storeVars, req>>)
    \/ (Cancel /\ UNCHANGED <<treeVars, storeVars, req>>)

SpecInvoke == InitInvoke /\ [][NextInvoke]_vars

IsTransientError(o) == o.kind = "error" /\ IsTransient(o.errStr)
IsPermanentError(o) == o.kind = "error" /\ ~IsTransient(o.errStr)
IsSuccess(o) == o.kind = "text" /\ ParseText(o.text).err = "nil"

\* C7: two transient failures are followed by a third attempt, a successful
\* third attempt ends the invocation with its result after exactly three
\* attempts, and no invocation starts more than three attempts.
C7_ThirdAttemptAfterTwoTransient ==
    /\ attempts <= 3
    /\ (Len(outcomes) >= 2 /\ IsTransientError(outcomes[1]) /\ IsTransientError(outcomes[2]))
        => /\ (Len(outcomes) = 2 => (pcC \in {"sleep", "call", "inflight"} /\ ret = NoRet))
           /\ (Len(outcomes) = 3 /\ IsSuccess(outcomes[3]))
                => /\ pcC = "done" /\ attempts = 3
                   /\ ret.err = "nil"
                   /\ ret.result = ParseText(outcomes[3].text).result

C7_Witness ==
    /\ pcC = "done" /\ attempts = 3 /\ Len(outcomes) = 3
    /\ IsTransientError(outcomes[1]) /\ IsTransientError(outcomes[2])
    /\ outcomes[3] = OutText(<<"w", "{", "a", "}", "w">>)
    /\ ret.err = "nil"
    /\ ret.result = Map([members |-> <<"a">>])

\* C8: a non-transient error ends the invocation with a permanent failure
\* right after the attempt that met it, whichever attempt that is.
C8_PermanentErrorEndsInvocation ==
    \A n \in 1..Len(outcomes) :
        IsPermanentError(outcomes[n])
            => (n = Len(outcomes) /\ pcC = "done" /\ attempts = n /\ ret.err # "nil")

\* C9: once the context is cancelled no further attempt is started and no
\* further backoff second is waited out.
C9_CancelStopsRetries ==
    [][ctxDone => (attempts' = attempts /\ elapsed' = elapsed)]_vars

(***************************************************************************)
(* Persistence: MindmapItem, the DynamoDB backend (aws) and the Firestore  *)
(* backend (gcp).  A store is a function from the identifiers present to   *)
(* the stored attributes, themselves a function from key to value.         *)
(***************************************************************************)
Ids == {"m1", "m2"}

Has(store, id) == id \in DOMAIN store
PutAt(store, id, doc) ==
    [x \in (DOMAIN store) \cup {id} |-> IF x = id THEN doc ELSE store[x]]
Remove(store, id) == [x \in (DOMAIN store) \ {id} |-> store[x]]

\* type MindmapItem: strings are Go strings, Authors is Nil or a list of
\* strings, MindmapData is Nil or a map.
ZeroItem ==
    [ID |-> "", Filename |-> "", Title |-> "", Authors |-> Nil, Date |-> "",
     MindmapData |-> Nil, PDFText |-> "", CreatedAt |-> "", UpdatedAt |-> ""]

StrList(a) == IF a = Nil THEN Nil ELSE Lst([n \in 1..Len(a.l) |-> Str(a.l[n])])

\* attributevalue.MarshalMap(item): the dynamodbav tags name the attributes.
MarshalMap(item) ==
    [id |-> Str(item.ID), filename |-> Str(item.Filename), title |-> Str(item.Title),
     authors |-> StrList(item.Authors), date |-> Str(item.Date),
     mindmapData |-> item.MindmapData, pdfText |-> Str(item.PDFText),
     createdAt |-> Str(item.CreatedAt), updatedAt |-> Str(item.UpdatedAt)]

\* attributevalue.UnmarshalMap(av, &item): an attribute that is missing or
\* NULL leaves the zero value.
AttrString(av, key) ==
    IF key \in DOMAIN av /\ av[key].k = "str" THEN av[key].s ELSE ""
AttrStrings(av, key) ==
    IF key \in DOMAIN av /\ av[key].k = "list"
    THEN Lst([n \in 1..Len(av[key].l) |-> av[key].l[n].s])
    ELSE Nil
AttrMap(av, key) ==
    IF key \in DOMAIN av /\ av[key].k = "map" THEN av[key] ELSE Nil

UnmarshalMap(av) ==
    [ID |-> AttrString(av, "id"), Filename |-> AttrString(av, "filename"),
     Title |-> AttrString(av, "title"), Authors |-> AttrStrings(av, "authors"),
     Date |-> AttrString(av, "date"), MindmapData |-> AttrMap(av, "mindmapData"),
     PDFText |-> AttrString(av, "pdfText"), CreatedAt |-> AttrString(av, "createdAt"),
     UpdatedAt |-> AttrString(av, "updatedAt")]

\* Firestore's encoding of the struct: MindmapItem carries no firestore
\* tags, so the document keys are the Go field names.
StructToData(item) ==
    [ID |-> Str(item.ID), Filename |-> Str(item.Filename), Title |-> Str(item.Title),
     Authors |-> StrList(item.Authors), Date |-> Str(item.Date),
     MindmapData |-> item.MindmapData, PDFText |-> Str(item.PDFText),
     CreatedAt |-> Str(item.CreatedAt), UpdatedAt |-> Str(item.UpdatedAt)]

\* fmt.Sprintf("%v", v) of a value that is not a string.
Sprint(v) ==
    CASE v.k = "str" -> v.s
      [] v.k = "list" -> "[...]"
      [] v.k = "map" -> "map[...]"
      [] OTHER -> "<nil>"

\* snapshotToMindmapItem: val, the first candidate key holding a non-nil
\* value (part_005 400-409).
RECURSIVE val(_, _)
val(data, keys) ==
    IF keys = << >> THEN Nil
    ELSE IF Head(keys) \in DOMAIN data /\ data[Head(keys)] # Nil
         THEN data[Head(keys)]
         ELSE val(data, Tail(keys))

getString(data, keys) ==
    LET v == val(data, keys) IN
    IF v = Nil THEN "" ELSE IF v.k = "str" THEN v.s ELSE Sprint(v)

\* Of the timestamp shapes toISOString accepts, the writers of this program
\* store the string.
toISOString(v) == IF v.k = "str" THEN v.s ELSE ""

toStringSlice(v) ==
    CASE v = Nil -> Lst(<< >>)
      [] v.k = "list" -> Lst([n \in 1..Len(v.l) |-> Sprint(v.l[n])])
      [] v.k = "str" -> Lst(<<v.s>>)
      [] OTHER -> Lst(<< >>)

\* snapshotToMindmapItem as a plausible slip would have it: the tree is
\* looked up under the upper-camel key first.
snapshotToMindmapItemUpperFirst(id, data) ==
    [ID |-> id,
     Filename |-> getString(data, <<"filename", "Filename">>),
     Title |-> getString(data, <<"title", "Title">>),
     Authors |-> toStringSlice(val(data, <<"authors", "Authors">>)),
     Date |-> getString(data, <<"date", "Date">>),
     PDFText |-> getString(data, <<"pdfText", "PDFText">>),
     CreatedAt |-> toISOString(val(data, <<"createdAt", "CreatedAt">>)),
     UpdatedAt |-> toISOString(val(data, <<"updatedAt", "UpdatedAt">>)),
     MindmapData |->
        LET mdv == val(data, <<"MindmapData", "mindmapData">>) IN
        IF mdv.k = "map" THEN mdv ELSE Nil]

\* snapshotToMindmapItem (part_005 396-512).
snapshotToMindmapItem(id, data) ==
    [ID |-> id,
     Filename |-> getString(data, <<"filename", "Filename">>),
     Title |-> getString(data, <<"title", "Title">>),
     Authors |-> toStringSlice(val(data, <<"authors", "Authors">>)),
     Date |-> getString(data, <<"date", "Date">>),
     PDFText |-> getString(data, <<"pdfText", "PDFText">>),
     CreatedAt |-> toISOString(val(data, <<"createdAt", "CreatedAt">>)),
     UpdatedAt |-> toISOString(val(data, <<"updatedAt", "UpdatedAt">>)),
     MindmapData |->
        LET mdv == val(data, <<"mindmapData", "MindmapData">>) IN
        IF mdv.k = "map" THEN mdv ELSE Nil]

\* Firestore Set with MergeAll: every leaf field path of the data overwrites
\* the stored field, everything else stays; an array or an empty map is a
\* leaf.
RECURSIVE MergeAll(_, _)
MergeAll(old, new) ==
    IF IsMap(old) /\ IsMap(new) /\ DOMAIN new.m # {}
    THEN Map([x \in (DOMAIN old.m) \cup (DOMAIN new.m) |->
                IF x \notin DOMAIN new.m THEN old.m[x]
                ELSE IF x \notin DOMAIN old.m THEN new.m[x]
                ELSE MergeAll(old.m[x], new.m[x])])
    ELSE new

\* CreateMindmap (part_004 221-239): PutItem under the condition
\* attribute_not_exists(id).  `up` says whether the backend answers.
CreateMindmap(tbl, item, up) ==
    IF ~up THEN [store |-> tbl, id |-> "", err |-> "unreachable"]
    ELSE IF item.ID = "" THEN [store |-> tbl, id |-> "", err |-> "ValidationException"]
    ELSE IF Has(tbl, item.ID)
    THEN [store |-> tbl, id |-> "", err |-> "ConditionalCheckFailedException"]
    ELSE [store |-> PutAt(tbl, item.ID, MarshalMap(item)), id |-> item.ID, err |-> "nil"]

\* CreateMindmapGCP (part_005 308-323): Doc(id).Set(ctx, item).
CreateMindmapGCP(coll, item, uuid, up) ==
    LET id == IF item.ID = "" THEN uuid ELSE item.ID IN
    IF ~up THEN [store |-> coll, id |-> "", err |-> "unreachable"]
    ELSE [store |-> PutAt(coll, id, StructToData([item EXCEPT !.ID = id])),
          id |-> id, err |-> "nil"]

\* GetMindmapByID (part_004 242-264).
GetMindmapByID(tbl, id, up) ==
    IF ~up THEN [found |-> FALSE, item |-> ZeroItem, err |-> "unreachable"]
    ELSE IF ~Has(tbl, id) THEN [found |-> FALSE, item |-> ZeroItem, err |-> "nil"]
    ELSE [found |-> TRUE, item |-> UnmarshalMap(tbl[id]), err |-> "nil"]

\* GetMindmapByIDGCP (part_005 325-341).
GetMindmapByIDGCP(coll, id, up) ==
    IF ~up THEN [found |-> FALSE, item |-> ZeroItem, err |-> "unreachable"]
    ELSE IF ~Has(coll, id) THEN [found |-> FALSE, item |-> ZeroItem, err |-> "nil"]
    ELSE [found |-> TRUE, item |-> snapshotToMindmapItem(id, coll[id]), err |-> "nil"]

\* UpdateMindmap as a plausible slip would have it: SET k = if_not_exists(k, :v),
\* so an attribute that is already stored keeps its value.
UpdateMindmapIfNotExists(tbl, id, upd, up) ==
    IF ~up THEN [store |-> tbl, err |-> "unreachable"]
    ELSE IF DOMAIN upd = {} \/ "id" \in DOMAIN upd
    THEN [store |-> tbl, err |-> "ValidationException"]
    ELSE LET base == IF Has(tbl, id) THEN tbl[id] ELSE [id |-> Str(id)] IN
         [store |-> PutAt(tbl, id, MergeInto(upd, base)), err |-> "nil"]

\* UpdateMindmap (part_004 267-301): UpdateItem with a SET expression and no
\* condition; DynamoDB creates the item when the key is not there.
UpdateMindmap(tbl, id, upd, up) ==
    IF ~up THEN [store |-> tbl, err |-> "unreachable"]
    ELSE IF DOMAIN upd = {} \/ "id" \in DOMAIN upd
    THEN [store |-> tbl, err |-> "ValidationException"]
    ELSE LET base == IF Has(tbl, id) THEN tbl[id] ELSE [id |-> Str(id)] IN
         [store |-> PutAt(tbl, id, MergeInto(base, upd)), err |-> "nil"]

\* UpdateMindmapGCP as a plausible slip would have it: Set without MergeAll,
\* which puts the updates in the place of the document.
UpdateMindmapGCPWithoutMerge(coll, id, upd, up) ==
    IF ~up THEN [store |-> coll, err |-> "unreachable"]
    ELSE [store |-> PutAt(coll, id, upd), err |-> "nil"]

\* UpdateMindmapGCP (part_005 343-351): Doc(id).Set(ctx, updates, MergeAll);
\* Firestore creates the document when it is not there.
UpdateMindmapGCP(coll, id, upd, up) ==
    IF ~up THEN [store |-> coll, err |-> "unreachable"]
    ELSE LET base == IF Has(coll, id) THEN coll[id] ELSE << >> IN
         [store |-> PutAt(coll, id, MergeAll(Map(base), Map(upd)).m), err |-> "nil"]

\* DeleteMindmapByID (part_004 304-319): DeleteItem succeeds whether or not
\* the key is there.
DeleteMindmapByID(tbl, id, up) ==
    IF ~up THEN [store |-> tbl, deleted |-> FALSE, err |-> "unreachable"]
    ELSE [store |-> Remove(tbl, id), deleted |-> TRUE, err |-> "nil"]

\* DeleteMindmapByIDGCP (part_005 353-364): Doc(id).Delete succeeds whether
\* or not the document is there.
DeleteMindmapByIDGCP(coll, id, up) ==
    IF ~up THEN [store |-> coll, deleted |-> FALSE, err |-> "unreachable"]
    ELSE [store |-> Remove(coll, id), deleted |-> TRUE, err |-> "nil"]

\* The platform wrappers send "gcp" to Firestore and anything else to
\* DynamoDB (part_004 155-173).
StoreOf(platform) == IF platform = "gcp" THEN collection ELSE table

\* strings.ToLower(strings.TrimSpace(s)) on the values the environment
\* variable takes here.
ToLowerTrim(s) == IF s = " GCP " THEN "gcp" ELSE s

\* defaultPlatform (part_004 200-204).
defaultPlatform == IF ToLowerTrim(envDefault) = "gcp" THEN "gcp" ELSE "aws"

(***************************************************************************)
(* Inputs of the persistence calls.                                        *)
(***************************************************************************)
Platforms == {"aws", "gcp"}
Selectors == {"", "aws", "gcp", "azure"}
EnvValues == {"", " GCP "}

\* A node as GenerateMindmap asks the model for it: name, tooltip, section,
\* pages and children.
NodeB(tip) ==
    Map([name |-> Str("b"), tooltip |-> Str(tip), section |-> Str("s1"),
         pages |-> Str("3"), children |-> Lst(<<Leaf("d", "t2")>>)])

TreeA == Node("r", "t0", <<NodeB("t1"), Leaf("c", "t1")>>)
TreeB == Node("r", "t0", <<NodeB("t9"), Leaf("c", "t1")>>)

NewItem(id) ==
    [ID |-> id, Filename |-> "paper.pdf", Title |-> "P", Authors |-> Lst(<<"Ann">>),
     Date |-> "2024", MindmapData |-> TreeA, PDFText |-> "text",
     CreatedAt |-> "c0", UpdatedAt |-> "c0"]

Items == {NewItem(id) : id \in Ids \cup {""}}

\* What uuid.New().String() can return; the identifier generated is one no
\* record has yet.
Uuids == Ids

\* A tree whose root has no children field.
TreeC == Map([name |-> Str("r"), tooltip |-> Str("t7")])

UpdateSets == {[mindmapData |-> TreeB, updatedAt |-> Str("c1")]}

\* Partial field sets for update as a persistence operation of its own.
PartialSets == UpdateSets \cup {[mindmapData |-> TreeC]}

InitStore ==
    /\ TreeIdle /\ InvokeIdle /\ HandlersIdle
    /\ table = << >> /\ collection = << >>
    /\ envDefault \in EnvValues
    /\ last = NoCall

SetStore(platform, store) ==
    IF platform = "gcp"
    THEN collection' = store /\ UNCHANGED table
    ELSE table' = store /\ UNCHANGED collection

Before(platform, id) ==
    IF Has(StoreOf(platform), id) THEN StoreOf(platform)[id] ELSE << >>

\* CreateMindmapPlatform(ctx, platform, item)
Create ==
    \E platform \in Platforms, item \in Items, up \in BOOLEAN :
      \E uuid \in (IF platform = "gcp" /\ item.ID = ""
                   THEN Uuids \ DOMAIN collection ELSE {""}) :
        LET r == IF platform = "gcp" THEN CreateMindmapGCP(collection, item, uuid, up)
                 ELSE CreateMindmap(table, item, up)
        IN
        /\ SetStore(platform, r.store)
        /\ last' = [NoCall EXCEPT !.op = "create", !.platform = platform,
                        !.id = item.ID, !.up = up,
                        !.existed = Has(StoreOf(platform), item.ID),
                        !.before = Before(platform, item.ID),
                        !.err = r.err, !.retID = r.id]
        /\ UNCHANGED envDefault

\* GetMindmapByIDPlatform(ctx, platform, id)
Get ==
    \E platform \in Platforms, id \in Ids, up \in BOOLEAN :
        LET r == IF platform = "gcp" THEN GetMindmapByIDGCP(collection, id, up)
                 ELSE GetMindmapByID(table, id, up)
        IN
        /\ last' = [NoCall EXCEPT !.op = "get", !.platform = platform, !.id = id,
                        !.up = up, !.existed = Has(StoreOf(platform), id),
                        !.before = Before(platform, id),
                        !.err = r.err, !.found = r.found]
        /\ UNCHANGED <<table, collection, envDefault>>

\* UpdateMindmapPlatform(ctx, platform, id, updates)
UpdateFrom(sets) ==
    \E platform \in Platforms, id \in Ids, upd \in sets, up \in BOOLEAN :
        LET r == IF platform = "gcp" THEN UpdateMindmapGCP(collection, id, upd, up)
                 ELSE UpdateMindmap(table, id, upd, up)
        IN
        /\ SetStore(platform, r.store)
        /\ last' = [NoCall EXCEPT !.op = "update", !.platform = platform, !.id = id,
                        !.up = up, !.existed = Has(StoreOf(platform), id),
                        !.before = Before(platform, id), !.upd = upd,
                        !.err = r.err]
        /\ UNCHANGED envDefault

Update == UpdateFrom(UpdateSets)

\* DeleteMindmapHandler (part_004 176-198): DELETE /api/mindmaps/{id}.
DeleteMindmapHandler ==
    \E param \in Selectors, id \in Ids \cup {""}, up \in BOOLEAN :
        LET platform == IF param = "" THEN defaultPlatform ELSE param
            r == IF platform = "gcp" THEN DeleteMindmapByIDGCP(collection, id, up)
                 ELSE DeleteMindmapByID(table, id, up)
            call == [NoCall EXCEPT !.op = "delete", !.platform = platform, !.id = id,
                        !.up = up, !.existed = Has(StoreOf(platform), id),
                        !.before = Before(platform, id)]
        IN
        IF id = ""
        THEN /\ last' = [NoCall EXCEPT !.op = "delete", !.platform = platform,
                            !.status = 400, !.body = "missing id"]
             /\ UNCHANGED <<table, collection, envDefault>>
        ELSE /\ SetStore(platform, r.store)
             /\ last' = [call EXCEPT
                            !.err = r.err, !.deleted = r.deleted,
                            !.status = IF r.err # "nil" THEN 500
                                       ELSE IF ~r.deleted THEN 404 ELSE 200,
                            !.body = IF r.err # "nil" THEN "error deleting mindmap"
                                     ELSE IF ~r.deleted THEN "mindmap not found"
                                     ELSE "Mindmap deleted successfully"]
             /\ UNCHANGED envDefault

NextStore ==
    \/ (Create /\ UNCHANGED <<treeVars, invokeVars, req>>)
    \/ (Get /\ UNCHANGED <<treeVars, invokeVars, req>>)
    \/ (Update /\ UNCHANGED <<treeVars, invokeVars, req>>)
    \/ (DeleteMindmapHandler /\ UNCHANGED <<treeVars, invokeVars, req>>)

SpecStore == InitStore /\ [][NextStore]_vars

\* C1: on both backends a create whose identifier already has a record
\* fails and leaves that record as it was.
C1_CreateExistingFails ==
    (last.op = "create" /\ last.existed)
        => /\ last.err # "nil"
           /\ Has(StoreOf(last.platform), last.id)
           /\ StoreOf(last.platform)[last.id] = last.before

\* What the caller of update is told: UpdateMindmap* return an error value
\* and nothing else.
UpdateReport(err) == IF err = "nil" THEN "updated" ELSE "error"

\* C2: on both backends an update of an identifier without a record reports
\* absence, neither an error nor a successful update.
C2_UpdateAbsentReportsAbsence ==
    (last.op = "update" /\ last.up /\ ~last.existed)
        => (UpdateReport(last.err) = "absent" /\ ~Has(StoreOf(last.platform), last.id))

\* C3: deleteByID returns true exactly when a record existed and was
\* removed; for an identifier without a record it returns false without an
\* error and the delete operation answers not found.
C3_DeleteReportsExistence ==
    (last.op = "delete" /\ last.up /\ last.id # "")
        => /\ last.err = "nil"
           /\ last.deleted = last.existed
           /\ ~Has(StoreOf(last.platform), last.id)
           /\ (~last.existed => (last.status = 404 /\ last.body = "mindmap not found"))

(***************************************************************************)
(* The node action handlers: RedoDescriptionHandler, RemakeSubtreeHandler  *)
(* and GoDeeperHandler (utils.go 881-1114).  A handler blocks in the       *)
(* fetch, in the model call and in the write-back; each step below runs    *)
(* the handler from one of these calls returning up to the next one.       *)
(***************************************************************************)
Actions == {"redo-description", "remake-subtree", "go-deeper"}

\* valueAsString (utils.go 1129-1134)
valueAsString(v) ==
    IF v = Nil THEN "" ELSE IF v.k = "str" THEN v.s ELSE "json"

\* result[key] on a Go map
Lookup(m, key) == IF key \in DOMAIN m THEN m[key] ELSE Nil

\* The platform a handler works with (utils.go 886-887, 955-956, 1041-1042).
PlatformOf(action, param) ==
    IF param # "" THEN param
    ELSE IF action = "go-deeper" THEN "aws"
    ELSE defaultPlatform

\* The patch as a plausible slip would have it: the whole subtree the model
\* returned is merged into the node.
PatchOfWholeSubtree(action, result) ==
    IF action = "redo-description"
    THEN [tooltip |-> Str(valueAsString(Lookup(result, "tooltip")))]
    ELSE IF Lookup(result, "children").k = "list" THEN result
    ELSE [children |-> Nil]

\* The patch as a plausible slip would have it: the node's children are
\* cleared along with the new tooltip.
PatchOfClearingChildren(action, result) ==
    IF action = "redo-description"
    THEN [tooltip |-> Str(valueAsString(Lookup(result, "tooltip"))), children |-> Nil]
    ELSE [children |-> IF Lookup(result, "children").k = "list"
                       THEN Lookup(result, "children") ELSE Nil]

\* The patch as a plausible slip would have it: a result without a children
\* list leaves the node an empty list.
PatchOfEmptyList(action, result) ==
    IF action = "redo-description"
    THEN [tooltip |-> Str(valueAsString(Lookup(result, "tooltip")))]
    ELSE [children |-> IF Lookup(result, "children").k = "list"
                       THEN Lookup(result, "children") ELSE Lst(<< >>)]

\* The patch a handler builds from the model result (utils.go 922, 936,
\* 1018-1023, 1099-1104).
PatchOf(action, result) ==
    IF action = "redo-description"
    THEN [tooltip |-> Str(valueAsString(Lookup(result, "tooltip")))]
    ELSE [children |-> IF Lookup(result, "children").k = "list"
                       THEN Lookup(result, "children") ELSE Nil]

\* Request bodies: one that does not decode, one without nodePath, and
\* bodies with a path.
GoodPath == <<SegString("children"), SegFloat(1)>>
BadPath == <<SegString("children"), SegFloat(8)>>
Bodies ==
    {[decodes |-> FALSE, nodePath |-> << >>],
     [decodes |-> TRUE, nodePath |-> << >>],
     [decodes |-> TRUE, nodePath |-> GoodPath],
     [decodes |-> TRUE, nodePath |-> BadPath]}

\* What the model returns for an action, when the call succeeds.
ModelResults(action) ==
    IF action = "redo-description"
    THEN {[tooltip |-> Str("n1")], << >>}
    ELSE IF action = "remake-subtree"
    THEN {[name |-> Str("x"), tooltip |-> Str("t4"), section |-> Str("s2"),
           pages |-> Str("5"), children |-> Lst(<<Leaf("e", "t5")>>)],
          [children |-> Lst(<<Leaf("d", "t3")>>)], << >>}
    ELSE {[children |-> Lst(<<Leaf("d", "t3")>>)], [children |-> Str("none")], << >>}

\* time.Now().UTC().Format(time.RFC3339) at the write-back.
Times == {"c1"}

StoredOrNot(doc) == {<< >>, [m1 |-> doc]}

InitAction ==
    /\ TreeIdle /\ InvokeIdle
    /\ table \in StoredOrNot(MarshalMap(NewItem("m1")))
    /\ collection \in StoredOrNot(StructToData(NewItem("m1")))
    /\ envDefault \in EnvValues
    /\ last = NoCall
    /\ HandlersIdle

Respond(r, q, status, body) ==
    req' = [req EXCEPT ![r] = [q EXCEPT !.pc = "done", !.status = status, !.body = body]]

\* A request arrives: platform, URL and body are read and the Document is
\* fetched (utils.go 881-904, 950-971, 1036-1057).
Receive(r) ==
    /\ req[r].pc = "idle"
    /\ \E action \in Actions, param \in Selectors, id \in {"m1"}, b \in Bodies,
          up \in BOOLEAN :
        LET platform == PlatformOf(action, param)
            q0 == [NoReq EXCEPT !.action = action, !.param = param,
                       !.platform = platform, !.id = id]
            g == IF platform = "gcp" THEN GetMindmapByIDGCP(collection, id, up)
                 ELSE GetMindmapByID(table, id, up)
            q1 == [q0 EXCEPT !.decoded = TRUE, !.nodePath = b.nodePath,
                       !.fetch = IF g.err # "nil" THEN "error"
                                 ELSE IF g.found THEN "found" ELSE "absent"]
        IN
        IF ~b.decodes THEN Respond(r, q0, 400, "invalid request body")
        ELSE IF g.err # "nil" \/ ~g.found THEN Respond(r, q1, 404, "mindmap not found")
        ELSE req' = [req EXCEPT ![r] = [q1 EXCEPT !.pc = "llm", !.item = g.item]]
    /\ UNCHANGED <<table, collection, envDefault, last>>

\* The model call returns and the tree is patched (utils.go 915-939,
\* 1001-1026, 1082-1107).  The call is CallClaude on aws and CallGemini on
\* gcp; what the handler sees of it is an error or a result.
ModelReturns(r) ==
    /\ req[r].pc = "llm"
    /\ LET q == req[r] IN
       IF q.platform \notin {"aws", "gcp"}
       THEN Respond(r, q, 400, "unknown platform")
       ELSE \E call \in {"init error", "error", "ok"} :
            CASE call = "init error" ->
                    Respond(r, [q EXCEPT !.call = call], 500,
                            IF q.platform = "aws" THEN "bedrock init error"
                            ELSE "gemini init error")
              [] call = "error" ->
                    Respond(r, [q EXCEPT !.call = call], 500, "LLM error")
              [] call = "ok" ->
                    \E result \in ModelResults(q.action) :
                        LET patch == PatchOf(q.action, result)
                            u == UpdateNodeByPath(q.item.MindmapData, q.nodePath, patch)
                            q2 == [q EXCEPT !.call = call, !.result = result,
                                       !.resolved = u.ok, !.data = u.val,
                                       !.payload = patch[CHOOSE x \in DOMAIN patch : TRUE]]
                        IN
                        IF ~u.ok THEN Respond(r, q2, 404, "node path not found")
                        ELSE req' = [req EXCEPT ![r] = [q2 EXCEPT !.pc = "write"]]
    /\ UNCHANGED <<table, collection, envDefault, last>>

\* The write-back and the response (utils.go 940-946, 1027-1032, 1108-1113).
WriteBack(r) ==
    /\ req[r].pc = "write"
    /\ \E now \in Times, up \in BOOLEAN :
        LET q == req[r]
            upd == [mindmapData |-> q.data, updatedAt |-> Str(now)]
            w == IF q.platform = "gcp" THEN UpdateMindmapGCP(collection, q.id, upd, up)
                 ELSE UpdateMindmap(table, q.id, upd, up)
        IN
        /\ SetStore(q.platform, w.store)
        /\ IF w.err # "nil"
           THEN Respond(r, [q EXCEPT !.write = "error"], 500, "update failed")
           ELSE Respond(r, [q EXCEPT !.write = "ok"], 200, "success")
    /\ UNCHANGED <<envDefault, last>>

\* The handler has written its response and returns; its goroutine can
\* serve the next request.
Return(r) ==
    /\ req[r].pc = "done"
    /\ req' = [req EXCEPT ![r] = NoReq]
    /\ UNCHANGED <<table, collection, envDefault, last>>

NextAction ==
    \/ (Receive(1) /\ UNCHANGED <<treeVars, invokeVars>>)
    \/ (ModelReturns(1) /\ UNCHANGED <<treeVars, invokeVars>>)
    \/ (WriteBack(1) /\ UNCHANGED <<treeVars, invokeVars>>)
    \/ (Return(1) /\ UNCHANGED <<treeVars, invokeVars>>)

SpecAction == InitAction /\ [][NextAction]_vars

\* C10: every node action reports its failures distinctly: "mindmap not
\* found" only when the Document does not exist, "node path not found" only
\* when the path does not resolve, and a persistence failure of the fetch
\* or of the write-back as a server fault.
C10_FailuresReportedDistinctly ==
    \A r \in Slots :
        req[r].pc = "done" =>
            /\ (req[r].body = "mindmap not found") => (req[r].fetch = "absent")
            /\ (req[r].body = "node path not found")
                    => ~Resolves(req[r].item.MindmapData, req[r].nodePath)
            /\ (req[r].fetch = "error" \/ req[r].write = "error")
                    => (req[r].status = 500)

\* C11: in every node action the write-back is issued only after the fetch
\* returned a Document, the model invocation succeeded and the path
\* resolved, in that order; when the model invocation fails no update is
\* sent and the stores stay as they are.
C11_WriteBackLast ==
    [][\A r \in Slots :
          /\ (req'[r].pc # "idle" /\ req'[r].call # req[r].call)
                => (req[r].pc = "llm" /\ req[r].fetch = "found"
                    /\ req[r].call = "none" /\ req[r].write = "none")
          /\ (req'[r].pc # "idle" /\ req'[r].write # req[r].write)
                => (req[r].pc = "write" /\ req[r].fetch = "found"
                    /\ req[r].call = "ok"
                    /\ Resolves(req[r].item.MindmapData, req[r].nodePath))
          /\ (req'[r].pc # "idle" /\ req'[r].write = "none")
                => (table' = table /\ collection' = collection)
          /\ (req'[r].call \in {"error", "init error"})
                => (req'[r].write = "none" /\ req'[r].status = 500
                    /\ table' = table /\ collection' = collection)]_vars

C11_Witness ==
    /\ req[1].pc = "done" /\ req[1].platform = "gcp"
    /\ req[1].fetch = "found" /\ req[1].call = "error" /\ req[1].write = "none"
    /\ req[1].body = "LLM error"
    /\ collection = [m1 |-> StructToData(NewItem("m1"))]

\* The tree a reader gets for the Document after the request: what
\* GetMindmapByIDPlatform returns as MindmapData.
StoredTree(platform, id) ==
    (IF platform = "gcp" THEN GetMindmapByIDGCP(collection, id, TRUE)
     ELSE GetMindmapByID(table, id, TRUE)).item.MindmapData

\* C12: after a successful regenerate-tooltip on a path addressing a node,
\* the stored tree is the previous tree with that node's tooltip set to the
\* tooltip the model returned; the node's other fields (name, section,
\* pages, children), its siblings and the root are as before.
C12_OnlyTooltipChanges ==
    \A r \in Slots :
        (/\ req[r].pc = "done" /\ req[r].action = "redo-description"
         /\ req[r].status = 200
         /\ IsMap(ValueAt(req[r].item.MindmapData, req[r].nodePath))
         /\ Lookup(req[r].result, "tooltip").k = "str")
            => LET prev == req[r].item.MindmapData
                   node == ValueAt(prev, req[r].nodePath).m
                   now == StoredTree(req[r].platform, req[r].id)
                   new == ValueAt(now, req[r].nodePath)
               IN /\ IsMap(new)
                  /\ DOMAIN new.m = (DOMAIN node) \cup {"tooltip"}
                  /\ new.m["tooltip"] = req[r].result["tooltip"]
                  /\ \A x \in (DOMAIN node) \ {"tooltip"} : new.m[x] = node[x]
                  /\ now = Put(prev, req[r].nodePath, new)

C12_Witness ==
    /\ req[1].pc = "done" /\ req[1].action = "redo-description"
    /\ req[1].status = 200 /\ req[1].platform = "gcp"
    /\ req[1].nodePath = GoodPath
    /\ req[1].item.MindmapData = TreeA
    /\ StoredTree("gcp", "m1") = Node("r", "t0", <<NodeB("n1"), Leaf("c", "t1")>>)

\* C13: after a successful regenerate-subtree or expand-leaf on a node, the
\* node's children are the children list of the model result; the node's
\* own name, tooltip, section and pages and everything outside its subtree
\* are as before.
C13_ChildrenReplaced ==
    \A r \in Slots :
        (/\ req[r].pc = "done" /\ req[r].action \in {"remake-subtree", "go-deeper"}
         /\ req[r].status = 200
         /\ IsMap(ValueAt(req[r].item.MindmapData, req[r].nodePath))
         /\ Lookup(req[r].result, "children").k = "list")
            => LET prev == req[r].item.MindmapData
                   node == ValueAt(prev, req[r].nodePath).m
                   now == StoredTree(req[r].platform, req[r].id)
                   new == ValueAt(now, req[r].nodePath)
               IN /\ IsMap(new)
                  /\ DOMAIN new.m = (DOMAIN node) \cup {"children"}
                  /\ new.m["children"] = req[r].result["children"]
                  /\ \A x \in (DOMAIN node) \ {"children"} : new.m[x] = node[x]
                  /\ now = Put(prev, req[r].nodePath, new)

C13_Witness ==
    /\ req[1].pc = "done" /\ req[1].action = "remake-subtree"
    /\ req[1].status = 200 /\ req[1].platform = "aws"
    /\ req[1].nodePath = GoodPath
    /\ req[1].item.MindmapData = TreeA
    /\ "name" \in DOMAIN req[1].result
    /\ StoredTree("aws", "m1") =
          Node("r", "t0",
               <<Map([name |-> Str("b"), tooltip |-> Str("t1"), section |-> Str("s1"),
                      pages |-> Str("3"), children |-> Lst(<<Leaf("e", "t5")>>)]),
                 Leaf("c", "t1")>>)

(***************************************************************************)
(* Two node actions in flight at once: net/http runs every request in a    *)
(* goroutine of its own, and the handlers take no lock.  Each of the two   *)
(* goroutines serves one request on a stored Document.                     *)
(***************************************************************************)
InitRace ==
    /\ InitAction
    /\ table # << >>
    /\ collection # << >>

NextRace ==
    \/ (\E r \in Slots : Receive(r)) /\ UNCHANGED <<treeVars, invokeVars>>
    \/ (\E r \in Slots : ModelReturns(r)) /\ UNCHANGED <<treeVars, invokeVars>>
    \/ (\E r \in Slots : WriteBack(r)) /\ UNCHANGED <<treeVars, invokeVars>>

SpecRace == InitRace /\ [][NextRace]_vars

C15_UnknownSelectorRejected ==
    \A r \in Slots :
        (req[r].pc # "idle" /\ req[r].decoded /\ req[r].param \notin {"", "aws", "gcp"})
            => /\ req[r].pc = "done" /\ req[r].status = 400
               /\ req[r].fetch = "none" /\ req[r].call = "none" /\ req[r].write = "none"

\* C16: a node action called without a backend selector is served by the
\* configured default backend (DEFAULT_PLATFORM, "aws" when unset), the
\* same for regenerate-tooltip, regenerate-subtree and expand-leaf.
C16_MissingSelectorUsesDefault ==
    \A r \in Slots :
        (req[r].pc # "idle" /\ req[r].param = "")
            => req[r].platform = defaultPlatform

\* C17: a node-action request whose body is malformed or lacks nodePath is
\* answered invalid input at once: no Document fetch, no model invocation
\* and no write-back takes place for it.
C17_BadBodyRejectedFirst ==
    \A r \in Slots :
        (req[r].pc # "idle" /\ (~req[r].decoded \/ req[r].nodePath = << >>))
            => /\ req[r].pc = "done" /\ req[r].status = 400
               /\ req[r].fetch = "none" /\ req[r].call = "none" /\ req[r].write = "none"

\* The store of a backend after the step.
StoreAfter(platform) == IF platform = "gcp" THEN collection' ELSE table'

\* C18: on both backends a create of an item without identifier generates
\* an identifier no stored record has, stores the item under it and returns
\* it; an identifier supplied by the caller is kept as is.
C18_CreateGeneratesIdentifier ==
    [][(last'.op = "create" /\ last'.up)
          => IF last'.id = ""
             THEN /\ last'.err = "nil"
                  /\ last'.retID # ""
                  /\ ~Has(StoreOf(last'.platform), last'.retID)
                  /\ Has(StoreAfter(last'.platform), last'.retID)
             ELSE last'.err = "nil"
                    => (last'.retID = last'.id
                        /\ Has(StoreAfter(last'.platform), last'.id))]_vars

\* Updates of stored and of missing records with any of the partial field
\* sets, one after the other.
InitUpdate ==
    /\ TreeIdle /\ InvokeIdle /\ HandlersIdle
    /\ table \in StoredOrNot(MarshalMap(NewItem("m1")))
    /\ collection \in StoredOrNot(StructToData(NewItem("m1")))
    /\ envDefault = ""
    /\ last = NoCall

NextUpdate == UpdateFrom(PartialSets) /\ UNCHANGED <<treeVars, invokeVars, req>>

SpecUpdate == InitUpdate /\ [][NextUpdate]_vars

\* C19: on both backends update(id, partialFields) on an existing record
\* sets every top-level field named in partialFields to exactly the value
\* supplied, nothing of the previous value merged in, and leaves every
\* field not named as it was.
C19_UpdateOverwritesNamedFields ==
    (last.op = "update" /\ last.up /\ last.existed)
        => /\ last.err = "nil"
           /\ Has(StoreOf(last.platform), last.id)
           /\ LET doc == StoreOf(last.platform)[last.id] IN
              /\ DOMAIN doc = (DOMAIN last.before) \cup (DOMAIN last.upd)
              /\ \A x \in DOMAIN last.upd : doc[x] = last.upd[x]
              /\ \A x \in (DOMAIN last.before) \ (DOMAIN last.upd) :
                    doc[x] = last.before[x]

(***************************************************************************)
(* CallGemini (utils.go 727-760): one GenerateContent call and the parse   *)
(* of its text, on the variables of the invocation.                        *)
(***************************************************************************)
ErrResourceExhausted == <<"googleapi:", "Error", "429:", "RESOURCE_EXHAUSTED">>
ErrUnavailable == <<"googleapi:", "Error", "503:", "UNAVAILABLE">>
ErrInvalidArgument == <<"googleapi:", "Error", "400:", "INVALID_ARGUMENT">>

\* What one GenerateContent call can return: an error, a response without
\* candidate content, a response with text.
GeminiOutcomes ==
    {OutError(e) : e \in {ErrResourceExhausted, ErrUnavailable, ErrInvalidArgument}}
    \cup {OutEmpty}
    \cup {OutText(t) : t \in Texts}

InitGemini ==
    /\ TreeIdle
    /\ StoreIdle
    /\ HandlersIdle
    /\ i = 0 /\ delay = 0 /\ pcC = "generate" /\ sleepLeft = 0
    /\ ctxDone = FALSE /\ startedDone = FALSE /\ attempts = 0
    /\ outcomes = << >> /\ elapsed = 0 /\ ret = NoRet

\* model.GenerateContent(ctx, genai.Text(fullPrompt)) is called (utils.go 731).
GenerateContent ==
    /\ pcC = "generate"
    /\ attempts' = attempts + 1
    /\ pcC' = "generating"
    /\ UNCHANGED <<i, delay, sleepLeft, ctxDone, startedDone, outcomes, elapsed, ret>>

\* GenerateContent returns and CallGemini runs to its return (utils.go
\* 732-759).
GenerateContentReturns ==
    /\ pcC = "generating"
    /\ \E o \in GeminiOutcomes :
        /\ outcomes' = Append(outcomes, o)
        /\ ret' = CASE o.kind = "error" ->
                        [err |-> "generate content error", result |-> Nil, raw |-> << >>]
                    [] o.kind = "empty" ->
                        [err |-> "empty response from Gemini", result |-> Nil, raw |-> << >>]
                    [] o.kind = "text" -> ParseText(o.text)
    /\ pcC' = "done"
    /\ UNCHANGED <<i, delay, sleepLeft, ctxDone, startedDone, attempts, elapsed>>

NextGemini ==
    \/ (GenerateContent /\ UNCHANGED <<treeVars, storeVars, req>>)
    \/ (GenerateContentReturns /\ UNCHANGED <<treeVars, storeVars, req>>)

SpecGemini == InitGemini /\ [][NextGemini]_vars

\* A rate-limit or upstream-service error, as either model backend words it.
IsRateLimitOrService(o) ==
    /\ o.kind = "error"
    /\ \/ IsTransient(o.errStr)
       \/ Contains(o.errStr, "429:")
       \/ Contains(o.errStr, "503:")

\* C20: on the Gemini backend as on the Claude backend, an attempt that
\* fails with a transient error before the third attempt is followed by
\* another attempt, and a call whose first attempt fails transiently and
\* whose next attempt succeeds returns success.
C20_TransientFailureRetried ==
    /\ \A n \in 1..Len(outcomes) :
          (n < maxRetries /\ n = Len(outcomes) /\ IsRateLimitOrService(outcomes[n]))
              => (pcC # "done" /\ ret = NoRet)
    /\ (Len(outcomes) = 2 /\ IsRateLimitOrService(outcomes[1]) /\ IsSuccess(outcomes[2]))
          => (pcC = "done" /\ ret.err = "nil")

\* The number of backoffs begun so far: the transient failures among the
\* attempts before the last one.
Backoffs ==
    Cardinality({n \in 1..Len(outcomes) : n < maxRetries /\ IsTransientError(outcomes[n])})

Pow2(n) == IF n = 0 THEN 1 ELSE IF n = 1 THEN 2 ELSE IF n = 2 THEN 4 ELSE 8

\* C21 as stated: an invocation whose three attempts all fail with
\* transient errors has waited delays of 1, 2 and 4 time units, 7 in all.
C21_ThreeDelays ==
    (/\ pcC = "done" /\ Len(outcomes) = 3
     /\ \A n \in 1..3 : IsTransientError(outcomes[n]))
        => elapsed = 1 + 2 + 4

\* C21, amended: the k-th backoff of an invocation lasts 2^(k-1) time units
\* (1, then 2), a backoff follows a transient failure of the first or the
\* second attempt and nothing else, and none follows the third attempt: an
\* invocation whose three attempts all fail with transient errors has
\* waited 1 + 2 = 3 time units.
C21_TwoDelays ==
    /\ pcC \in {"call", "inflight", "done"} => elapsed = Pow2(Backoffs) - 1
    /\ pcC = "sleep"
          => /\ Backoffs >= 1
             /\ IsTransientError(outcomes[Len(outcomes)])
             /\ delay = Pow2(Backoffs - 1)
             /\ elapsed = (Pow2(Backoffs - 1) - 1) + (delay - sleepLeft)
    /\ (/\ pcC = "done" /\ Len(outcomes) = 3
        /\ \A n \in 1..3 : IsTransientError(outcomes[n]))
          => elapsed = 1 + 2

C21_Witness ==
    /\ pcC = "done" /\ Len(outcomes) = 3 /\ attempts = 3
    /\ \A n \in 1..3 : IsTransientError(outcomes[n])
    /\ elapsed = 3 /\ delay = 4
    /\ ret.err = "failed after retries"

\* A text that wraps the object obj in prose: words before it, after it or
\* both, and the object in between.
Wraps(t, obj) ==
    /\ IsObject(obj)
    /\ Len(t) > Len(obj)
    /\ \E a \in 0..(Len(t) - Len(obj)) :
          /\ SubSeq(t, a + 1, a + Len(obj)) = obj
          /\ \A n \in (1..a) \cup ((a + Len(obj) + 1)..Len(t)) : t[n] = "w"

\* A text without a bracketed object anywhere in it.
NoObject(t) == \A a, b \in 1..Len(t) : ~IsObject(SubSeq(t, a, b))

MaxTitleLen == 2
MaxNameLen == 3

\* strings.TrimSpace
RECURSIVE TrimLeft(_)
TrimLeft(q) == IF q # << >> /\ Head(q) = " " THEN TrimLeft(Tail(q)) ELSE q

RECURSIVE TrimRight(_)
TrimRight(q) ==
    IF q # << >> /\ q[Len(q)] = " " THEN TrimRight(SubSeq(q, 1, Len(q) - 1)) ELSE q

TrimSpace(q) == TrimRight(TrimLeft(q))

\* filepath.Ext on a name without path separators: from the last dot on.
Ext(name) ==
    LET dots == {n \in 1..Len(name) : name[n] = "."} IN
    IF dots = {} THEN << >>
    ELSE SubSeq(name, CHOOSE n \in dots : \A m \in dots : n >= m, Len(name))

\* strings.TrimSuffix
TrimSuffix(q, suffix) ==
    IF Len(suffix) <= Len(q) /\ SubSeq(q, Len(q) - Len(suffix) + 1, Len(q)) = suffix
    THEN SubSeq(q, 1, Len(q) - Len(suffix))
    ELSE q

\* A JSON number in a decoded model result.
Num == [k |-> "num"]

\* The title as a plausible slip would have it: the fallback is the filename
\* as uploaded, extension included.
TitleOfKeepingExtension(metadata, filename) ==
    LET v == Lookup(metadata, "title")
        title == TrimSpace(IF v.k = "str" THEN v.s ELSE << >>)
    IN IF title = << >> THEN filename ELSE title

\* title, _ := metadata["title"].(string), trimmed, with the fallback to
\* the filename without its extension (utils.go 500-506).
TitleOf(metadata, filename) ==
    LET v == Lookup(metadata, "title")
        title == TrimSpace(IF v.k = "str" THEN v.s ELSE << >>)
    IN IF title = << >> THEN TrimSuffix(filename, Ext(filename)) ELSE title

\* date, _ := metadata["date"].(string)
DateOf(metadata) ==
    LET v == Lookup(metadata, "date") IN IF v.k = "str" THEN v.s ELSE ""

\* The strings among the elements of a decoded JSON array, in order.
RECURSIVE OnlyStrings(_)
OnlyStrings(q) ==
    IF q = << >> THEN << >>
    ELSE IF Head(q).k = "str" THEN <<Head(q).s>> \o OnlyStrings(Tail(q))
    ELSE OnlyStrings(Tail(q))

\* The authors of the new item (utils.go 508-518): a nil slice unless the
\* model's authors is an array holding a string.
AuthorsOf(metadata) ==
    LET v == Lookup(metadata, "authors") IN
    IF v.k = "list" /\ OnlyStrings(v.l) # << >> THEN Lst(OnlyStrings(v.l)) ELSE Nil

\* What the model returns as metadata: the title missing, a number, or a
\* string; the authors missing, one string, or an array.
TitleValues ==
    {None, Num} \cup {Str(q) : q \in SeqsUpTo({" ", "T"}, MaxTitleLen)}

AuthorsValues ==
    {None, Str("Ann"), Lst(<< >>), Lst(<<Str("Ann"), Num, Str("Bob")>>)}

Meta(title, authors) ==
    LET full == [title |-> title, authors |-> authors, date |-> Str("2024")] IN
    [x \in {y \in DOMAIN full : full[y] # None} |-> full[x]]

Metadatas == {Meta(t, a) : t \in TitleValues, a \in AuthorsValues}

\* header.Filename: a name without directories.
Filenames == SeqsUpTo({"a", "."}, MaxNameLen) \ {<< >>}

\* How far the request gets before the model is called: the method, the
\* form, the file, the temporary copy, the text of the PDF.
Uploads ==
    {"not POST", "bad form", "no file", "temp file error", "temp write error",
     "unreadable pdf", "ok"}

\* The upload handler's goroutine when it serves no request.
NoUpload ==
    [pc |-> "idle", param |-> "", platform |-> "", filename |-> << >>,
     metadata |-> << >>, item |-> << >>, calls |-> << >>, status |-> 0,
     body |-> "", id |-> ""]

InitIngest ==
    /\ TreeIdle /\ InvokeIdle
    /\ table \in StoredOrNot(MarshalMap(NewItem("m1")))
    /\ collection \in StoredOrNot(StructToData(NewItem("m1")))
    /\ envDefault \in EnvValues
    /\ last = NoCall
    /\ req = [r \in Slots |-> NoUpload]

\* The request arrives and UploadPaper runs up to the metadata invocation
\* (utils.go 406-485).
UploadPaper(r) ==
    /\ req[r].pc = "idle"
    /\ \E param \in Selectors, upload \in Uploads, filename \in Filenames,
          init \in BOOLEAN :
        LET platform == IF param = "" THEN defaultPlatform ELSE param
            q == [NoUpload EXCEPT !.param = param, !.platform = platform]
            q1 == [q EXCEPT !.filename = filename]
        IN
        CASE upload = "not POST" -> Respond(r, NoUpload, 405, "method not allowed")
          [] upload = "bad form" -> Respond(r, q, 400, "failed to parse form")
          [] upload = "no file" -> Respond(r, q, 400, "no file uploaded")
          [] upload = "temp file error" ->
                Respond(r, q1, 500, "failed to create temp file")
          [] upload = "temp write error" ->
                Respond(r, q1, 500, "failed to write temp file")
          [] upload = "unreadable pdf" -> Respond(r, q1, 500, "failed to read pdf")
          [] upload = "ok" ->
                IF platform \notin {"aws", "gcp"}
                THEN Respond(r, q1, 400, "unknown platform")
                ELSE IF ~init
                THEN Respond(r, q1, 500,
                             IF platform = "aws" THEN "failed to init bedrock"
                             ELSE "failed to init gemini")
                ELSE req' = [req EXCEPT ![r] =
                                [q1 EXCEPT !.pc = "metadata", !.calls = <<"metadata">>]]
    /\ UNCHANGED <<table, collection, envDefault, last>>

\* ExtractMetadata / ExtractMetadataGemini returns (utils.go 477-478,
\* 489-490); on success the tree invocation is started.
ExtractMetadataReturns(r) ==
    /\ req[r].pc = "metadata"
    /\ \/ Respond(r, req[r], 500, "failed to extract metadata")
       \/ \E metadata \in Metadatas :
            req' = [req EXCEPT ![r] =
                        [req[r] EXCEPT !.pc = "mindmap", !.metadata = metadata,
                                       !.calls = Append(@, "mindmap")]]
    /\ UNCHANGED <<table, collection, envDefault, last>>

\* The step as a plausible slip would have it: the error of the tree
\* invocation is not looked at and the item is created with what came back.
GenerateMindmapReturnsUnchecked(r) ==
    /\ req[r].pc = "mindmap"
    /\ \/ \E mindmapData \in {Nil, TreeA}, now \in Times,
             uuid \in Uuids \ ((DOMAIN table) \cup (DOMAIN collection)) :
            LET q == req[r]
                item == [ID |-> uuid, Filename |-> q.filename,
                         Title |-> TitleOf(q.metadata, q.filename),
                         Authors |-> AuthorsOf(q.metadata),
                         Date |-> DateOf(q.metadata),
                         MindmapData |-> mindmapData, PDFText |-> "text",
                         CreatedAt |-> now, UpdatedAt |-> now]
            IN req' = [req EXCEPT ![r] =
                          [q EXCEPT !.pc = "create", !.item = item,
                                    !.calls = Append(@, "create")]]
    /\ UNCHANGED <<table, collection, envDefault, last>>

\* GenerateMindmap / GenerateMindmapGemini returns (utils.go 479-480,
\* 491-492); on success the item is assembled and create is called
\* (utils.go 500-533).
GenerateMindmapReturns(r) ==
    /\ req[r].pc = "mindmap"
    /\ \/ Respond(r, req[r], 500, "failed to generate mindmap")
       \/ \E mindmapData \in {TreeA}, now \in Times,
             uuid \in Uuids \ ((DOMAIN table) \cup (DOMAIN collection)) :
            LET q == req[r]
                item == [ID |-> uuid, Filename |-> q.filename,
                         Title |-> TitleOf(q.metadata, q.filename),
                         Authors |-> AuthorsOf(q.metadata),
                         Date |-> DateOf(q.metadata),
                         MindmapData |-> mindmapData, PDFText |-> "text",
                         CreatedAt |-> now, UpdatedAt |-> now]
            IN req' = [req EXCEPT ![r] =
                          [q EXCEPT !.pc = "create", !.item = item,
                                    !.calls = Append(@, "create")]]
    /\ UNCHANGED <<table, collection, envDefault, last>>

\* CreateMindmapPlatform returns and the response is written (utils.go
\* 533-542).
CreateReturns(r) ==
    /\ req[r].pc = "create"
    /\ \E up \in BOOLEAN :
        LET q == req[r]
            c == IF q.platform = "gcp" THEN CreateMindmapGCP(collection, q.item, "", up)
                 ELSE CreateMindmap(table, q.item, up)
        IN
        /\ SetStore(q.platform, c.store)
        /\ IF c.err # "nil"
           THEN Respond(r, q, 500, "failed to store mindmap")
           ELSE Respond(r, [q EXCEPT !.id = c.id], 201, "PDF processed and mind map created!")
    /\ UNCHANGED <<envDefault, last>>

NextIngest ==
    \/ (UploadPaper(1) /\ UNCHANGED <<treeVars, invokeVars>>)
    \/ (ExtractMetadataReturns(1) /\ UNCHANGED <<treeVars, invokeVars>>)
    \/ (GenerateMindmapReturns(1) /\ UNCHANGED <<treeVars, invokeVars>>)
    \/ (CreateReturns(1) /\ UNCHANGED <<treeVars, invokeVars>>)

SpecIngest == InitIngest /\ [][NextIngest]_vars

Range(q) == {q[n] : n \in 1..Len(q)}

\* The stores hold what they held plus exactly one Document, under `id`, in
\* the store of `platform`.
OneDocumentAdded(platform, id) ==
    /\ ~Has(StoreOf(platform), id)
    /\ StoreOf(platform)' = PutAt(StoreOf(platform), id, StoreOf(platform)'[id])
    /\ DOMAIN StoreOf(platform)' = (DOMAIN StoreOf(platform)) \cup {id}
    /\ (platform = "gcp" => table' = table)
    /\ (platform # "gcp" => collection' = collection)

\* C23: ingest calls the metadata invocation, then the tree invocation, then
\* create, and create only with the results of both; a request that ends
\* without 201 (an invocation failed, the selector is unknown, ...) leaves
\* both stores as they were; a request that ends with 201 has added exactly
\* one Document.
C23_CreateOnlyAfterBothSucceeded ==
    [][LET q == req[1]
           n == req'[1]
       IN
       /\ ("create" \in Range(n.calls)
             => /\ n.calls = <<"metadata", "mindmap", "create">>
                /\ n.metadata \in Metadatas
                /\ n.item.MindmapData = TreeA)
       /\ (<<table, collection>>' # <<table, collection>>
             => (q.pc = "create" /\ n.pc = "done" /\ n.status = 201))
       /\ ((n.pc = "done" /\ n.status = 201)
             => (q.pc = "create" /\ n.id = q.item.ID
                 /\ OneDocumentAdded(q.platform, n.id)))
       /\ (n.platform \notin {"aws", "gcp"} => n.calls = << >>)
      ]_vars

C23_Witness ==
    /\ req[1].pc = "done" /\ req[1].status = 201 /\ req[1].platform = "gcp"
    /\ req[1].calls = <<"metadata", "mindmap", "create">>
    /\ DOMAIN collection = {"m1", "m2"} /\ req[1].id = "m2"

\* The Document the finished ingest request created, as stored.
Created == StoreOf(req[1].platform)[req[1].id]
CreatedTitle ==
    IF req[1].platform = "gcp" THEN Created.Title.s ELSE Created.title.s

Blank(q) == \A n \in 1..Len(q) : q[n] = " "

\* The model's title, when it is a string.
ModelTitle == Lookup(req[1].metadata, "title")

\* C24 as stated: the model's title itself when it is a non-blank string,
\* otherwise the filename without its extension.
C24_TitleVerbatim ==
    (req[1].pc = "done" /\ req[1].status = 201)
        => CreatedTitle =
             IF ModelTitle.k = "str" /\ ~Blank(ModelTitle.s)
             THEN ModelTitle.s
             ELSE TrimSuffix(req[1].filename, Ext(req[1].filename))

\* C24: the created Document's title is the model's title with the white
\* space around it trimmed when that is a non-blank string, and otherwise
\* (missing, not a string, empty, blank) the uploaded filename without its
\* extension.
C24_TitleTrimmedOrFilename ==
    (req[1].pc = "done" /\ req[1].status = 201)
        => /\ CreatedTitle =
                IF ModelTitle.k = "str" /\ ~Blank(ModelTitle.s)
                THEN TrimSpace(ModelTitle.s)
                ELSE TrimSuffix(req[1].filename, Ext(req[1].filename))
           /\ (ModelTitle.k = "str" /\ ~Blank(ModelTitle.s)
                 => (CreatedTitle # << >> /\ CreatedTitle[1] # " "
                     /\ CreatedTitle[Len(CreatedTitle)] # " "))
           /\ (~(ModelTitle.k = "str" /\ ~Blank(ModelTitle.s))
                 => /\ CreatedTitle \o Ext(req[1].filename) = req[1].filename
                    /\ (Ext(req[1].filename) # << >>
                          => /\ Head(Ext(req[1].filename)) = "."
                             /\ "." \notin Range(Tail(Ext(req[1].filename)))))

C24_Witness ==
    /\ req[1].pc = "done" /\ req[1].status = 201
    /\ ModelTitle = Str(<<" ", " ">>)
    /\ req[1].filename = <<"a", ".", "a">>
    /\ CreatedTitle = <<"a">>

\* GetAllMindmaps, aws branch (part_004 104-126): Scan, then UnmarshalMap of
\* every item; the result is given here by identifier.
ScanItems(tbl) == [id \in DOMAIN tbl |-> UnmarshalMap(tbl[id])]

\* ListMindmapsGCP (part_005 366-392): snapshotToMindmapItem of every
\* document of the collection.
ListMindmapsGCP(coll) == [id \in DOMAIN coll |-> snapshotToMindmapItem(id, coll[id])]

\* authors as the JSON response carries it: a list of strings, not null.
IsStringList(a) == a.k = "list"

\* C25: whatever is stored, on both backends getByID and listAll return
\* authors as a list of strings, never null: here for every Document the
\* stores hold while and after ingest requests are served.
C25_AuthorsAlwaysList ==
    /\ \A id \in DOMAIN table :
        /\ IsStringList(GetMindmapByID(table, id, TRUE).item.Authors)
        /\ IsStringList(ScanItems(table)[id].Authors)
    /\ \A id \in DOMAIN collection :
        /\ IsStringList(GetMindmapByIDGCP(collection, id, TRUE).item.Authors)
        /\ IsStringList(ListMindmapsGCP(collection)[id].Authors)

\* The path without its final segment, and the final segment.
Front(p) == SubSeq(p, 1, Len(p) - 1)
Final(p) == p[Len(p)]

\* The final segment names a field the keyed container reached by the
\* segments before it does not have.
MissingFinalField(v, p) ==
    /\ p # << >> /\ Final(p).t = "string"
    /\ ValueAt(v, Front(p)) # None /\ IsMap(ValueAt(v, Front(p)))
    /\ Final(p).s \notin DOMAIN ValueAt(v, Front(p)).m

\* C26: a final field name that the keyed container reached does not have
\* gets the patch stored as its value, and success is returned.
C26_MissingFieldStored ==
    (pcU = "done" /\ MissingFinalField(rootBefore, path))
        => (applied = TRUE /\ ValueAt(root, path) = Map(updates))

(***************************************************************************)
(* A node action next to deletions: the handler of slot 1 serves one       *)
(* request while DELETE requests are served; nothing is created.           *)
(***************************************************************************)
InitDelete == InitRace

NextDelete ==
    \/ (Receive(1) /\ UNCHANGED <<treeVars, invokeVars>>)
    \/ (ModelReturns(1) /\ UNCHANGED <<treeVars, invokeVars>>)
    \/ (WriteBack(1) /\ UNCHANGED <<treeVars, invokeVars, last>>)
    \/ (DeleteMindmapHandler /\ UNCHANGED <<treeVars, invokeVars, req>>)

SpecDelete == InitDelete /\ [][NextDelete]_vars

\* C27: with no create going on, a Document that is absent (deleteByID
\* removed it) is absent after every step; the write-back of a node action
\* that fetched it before the deletion does not bring a record back.
C27_DeletedStaysAbsent ==
    [][\A platform \in Platforms, id \in Ids :
          ~Has(StoreOf(platform), id) => ~Has(StoreOf(platform)', id)]_vars

\* The fields of a Document that a node action is not to touch, as getByID
\* returns them.
KeptFields(item) ==
    [ID |-> item.ID, Filename |-> item.Filename, Title |-> item.Title,
     Authors |-> item.Authors, Date |-> item.Date, PDFText |-> item.PDFText,
     CreatedAt |-> item.CreatedAt]

GetItem(platform, store, id) ==
    IF platform = "gcp" THEN GetMindmapByIDGCP(store, id, TRUE).item
    ELSE GetMindmapByID(store, id, TRUE).item

WrittenKeys == {"mindmapData", "updatedAt"}

\* C28: a step changes a store only as the successful write-back of a node
\* action, which writes the two fields mindmapData and updatedAt of the
\* Document in one update and nothing else; through any sequence of node
\* actions getByID returns id, filename, title, authors, date, pdfText and
\* createdAt as created.
C28_OnlyTreeAndTimestampWritten ==
    [][\A platform \in Platforms :
        LET old == StoreOf(platform)
            new == StoreOf(platform)'
        IN
        /\ DOMAIN new = DOMAIN old
        /\ \A id \in DOMAIN new :
            /\ \A x \in ((DOMAIN old[id]) \cup (DOMAIN new[id])) \ WrittenKeys :
                 x \in DOMAIN old[id] /\ x \in DOMAIN new[id] /\ new[id][x] = old[id][x]
            /\ KeptFields(GetItem(platform, new, id)) = KeptFields(NewItem(id))
            /\ (new[id] # old[id]
                  => /\ req[1].pc = "write" /\ req'[1].pc = "done"
                     /\ req'[1].status = 200
                     /\ req[1].platform = platform /\ req[1].id = id)
        /\ ((req[1].pc = "write" /\ req'[1].status = 200 /\ req[1].platform = platform)
              => /\ WrittenKeys \subseteq DOMAIN new[req[1].id]
                 /\ new[req[1].id]["updatedAt"] \in {Str(t) : t \in Times}
                 /\ GetItem(platform, new, req[1].id).UpdatedAt \in Times
                 /\ (platform = "aws" => new[req[1].id]["mindmapData"] = req[1].data))
      ]_vars

C28_Witness ==
    /\ req[1].pc = "done" /\ req[1].status = 200 /\ req[1].platform = "gcp"
    /\ req[1].action = "remake-subtree"
    /\ Has(collection, "m1")
    /\ collection["m1"]["updatedAt"] = Str("c1")
    /\ collection["m1"]["UpdatedAt"] = Str("c0")
    /\ collection["m1"]["mindmapData"] # TreeA
    /\ KeptFields(GetMindmapByIDGCP(collection, "m1", TRUE).item) = KeptFields(NewItem("m1"))

\* C29: on the document-store backend every successful write-back of a node
\* action is what getByID returns from then on, until the next write-back:
\* the tree written under the lower-camel key, not the tree create stored
\* under the upper-camel key, which stays in the document.
C29_ReadReturnsLastWriteBack ==
    [][LET q == req[1] IN
       /\ (q.pc = "write" /\ req'[1].status = 200 /\ q.platform = "gcp")
            => /\ GetMindmapByIDGCP(collection', q.id, TRUE).item.MindmapData = q.data
               /\ collection'[q.id]["MindmapData"] = TreeA
               /\ q.data # TreeA
               /\ GetMindmapByIDGCP(collection', q.id, TRUE).item.UpdatedAt \in Times
       /\ (collection' # collection
            => (q.pc = "write" /\ req'[1].status = 200 /\ q.platform = "gcp"))
      ]_vars

C29_Witness ==
    /\ req[1].pc = "done" /\ req[1].status = 200 /\ req[1].platform = "gcp"
    /\ req[1].action = "redo-description"
    /\ collection["m1"]["MindmapData"] = TreeA
    /\ collection["m1"]["mindmapData"] = req[1].data
    /\ req[1].item.MindmapData # TreeA
    /\ GetMindmapByIDGCP(collection, "m1", TRUE).item.MindmapData = req[1].data
    /\ req[1].data # req[1].item.MindmapData

\* The model result of the request in slot 1 carries no children list.
NoChildrenList == Lookup(req[1].result, "children").k # "list"

\* C30: regenerate-subtree and expand-leaf whose model result carries no
\* children list (key missing, or not a list) and whose path resolves go on
\* to the write-back: unless the store fails the update the answer is 200,
\* and the node stored has children null, whatever children it had.
C30_NoChildrenListClearsChildren ==
    LET q == req[1] IN
    (q.pc = "done" /\ q.action \in {"remake-subtree", "go-deeper"}
        /\ q.call = "ok" /\ NoChildrenList /\ q.resolved)
      => /\ q.payload = Nil
         /\ ValueAt(q.data, q.nodePath).m["children"] = Nil
         /\ q.write \in {"ok", "error"}
         /\ (q.write = "error" => (q.status = 500 /\ q.body = "update failed"))
         /\ (q.write = "ok"
               => /\ q.status = 200
                  /\ ValueAt(StoredTree(q.platform, q.id), q.nodePath).m["children"] = Nil)

C30_Witness ==
    /\ req[1].pc = "done" /\ req[1].action = "go-deeper" /\ req[1].status = 200
    /\ req[1].result = [children |-> Str("none")]
    /\ req[1].nodePath = GoodPath
    /\ ValueAt(req[1].item.MindmapData, GoodPath).m["children"] = Lst(<<Leaf("d", "t2")>>)
    /\ ValueAt(StoredTree(req[1].platform, "m1"), GoodPath).m["children"] = Nil

====
